---- MODULE Spec2Model ----
(***************************************************************************)
(* State-machine model of the STAR randomness web service (src/main.rs):   *)
(* the shared OPRFServer state behind its RwLock, the randomness and info  *)
(* request handlers, and the epoch rotation loop.                          *)
(*                                                                         *)
(* The ppoprf primitive is an external crate.  It is modelled by its       *)
(* contract: a server holds a key, the epochs it was built over and the    *)
(* set of epochs punctured so far; eval fails on a punctured or unknown    *)
(* epoch, puncture fails on an epoch that cannot be punctured (any more).  *)
(***************************************************************************)
EXTENDS Integers, Sequences, FiniteSets, TLC

VARIABLES
    config,           \* Config: first_epoch, last_epoch, epoch_seconds
    overflow_checks,  \* build profile: does u8 `+` panic on overflow or wrap?
    state,            \* the OPRFServer inside the RwLock: server, epoch, next_epoch_time
    readers,          \* handlers holding a read guard of the RwLock
    writer,           \* TRUE while the rotation task holds the write guard
    poisoned,         \* the RwLock's poison flag
    loop_pc,          \* position of epoch_update_loop
    old_epoch,        \* epoch_update_loop's local `old_epoch`
    now,              \* wall clock, in seconds
    keys_made,        \* number of ppoprf::Server instances constructed so far
    rand_pc,          \* position of the randomness handler
    rand_req,         \* the RandomnessRequest being served
    rand_resp,        \* the Result the randomness handler returns
    info_pc,          \* position of the info handler
    info_resp,        \* the Result the info handler returns
    rotated,          \* history: the last completed Rotate, and the epoch it ended
    process           \* "running", or "aborted" once a panic has ended the process

vars == <<config, overflow_checks, state, readers, writer, poisoned, loop_pc,
          old_epoch, now, keys_made, rand_pc, rand_req, rand_resp, info_pc,
          info_resp, rotated, process>>

----------------------------------------------------------------------------
(* Bounds of the model *)

\* Key generations the rotation loop may construct before the model stops it.
MaxGenerations == 3

\* Longest batch enumerated point by point (longer batches are uniform).
MaxBatchLen == 2

----------------------------------------------------------------------------
(* Program constants *)

MAX_POINTS == 1024

COMPRESSED_POINT_LEN == 32

\* Exclusive upper end of the u8 epoch tag.
U8_RANGE == 256

DEFAULT_EPOCH_SECONDS == 5

----------------------------------------------------------------------------
(* Option<T> *)

None == [some |-> FALSE, val |-> 0]

Some(v) == [some |-> TRUE, val |-> v]

unwrap_or(opt, default) == IF opt.some THEN opt.val ELSE default

----------------------------------------------------------------------------
(* base64: a string either is the encoding of some bytes or is not base64.  *)
(* Byte strings are kept by their length and a tag naming their content.    *)

Bytes(len, tag) == [len |-> len, tag |-> tag]

Base64Encode(bytes) == [valid |-> TRUE, bytes |-> bytes]

NotBase64 == [valid |-> FALSE, bytes |-> Bytes(0, 0)]

Base64Decode(str) ==
    IF str.valid THEN [ok |-> TRUE, val |-> str.bytes]
                 ELSE [ok |-> FALSE, val |-> Bytes(0, 0)]

----------------------------------------------------------------------------
(* The ppoprf primitive, by its contract *)

\* ppoprf::Server::new(epochs): a fresh key over the given epochs.
ServerNew(key, epochs) == [key |-> key, epochs |-> epochs, punctured |-> {}]

\* Can the server still evaluate at epoch md?
ServerCanEval(server, md) == md \in server.epochs /\ md \notin server.punctured

\* ppoprf::Server::eval(point, md, prove): the output depends on the key,
\* the epoch and the point; Err on a punctured or unknown epoch.
ServerEval(server, point, md) ==
    IF ServerCanEval(server, md)
    THEN [ok |-> TRUE,
          output |-> Bytes(COMPRESSED_POINT_LEN, <<server.key, md, point.tag>>)]
    ELSE [ok |-> FALSE, output |-> Bytes(0, <<0, 0, 0>>)]

\* ppoprf::Server::puncture(md): Err when md cannot be punctured (any more).
ServerPunctureOk(server, md) == ServerCanEval(server, md)

ServerPuncture(server, md) ==
    [server EXCEPT !.punctured = @ \cup {md}]

\* get_public_key().serialize_to_bincode(), base64 encoded
PublicKey(server) == Base64Encode(Bytes(COMPRESSED_POINT_LEN, <<server.key>>))

----------------------------------------------------------------------------
(* OPRFServer::new *)

EpochRange(cfg) == cfg.first_epoch .. cfg.last_epoch

OPRFServerNew(cfg, key) ==
    [server |-> ServerNew(key, EpochRange(cfg)),
     epoch |-> cfg.first_epoch,
     next_epoch_time |-> None]

----------------------------------------------------------------------------
(* Results returned by the handlers: Ok(Json(response)) or Err(Error) *)

Ok(points, epoch) == [status |-> "Ok", points |-> points, epoch |-> epoch]

\* An Err carries no RandomnessResponse; BadEpoch carries the rejected epoch.
Err(error, epoch) == [status |-> error, points |-> <<>>, epoch |-> epoch]

NoResponse == [status |-> "None", points |-> <<>>, epoch |-> 0]

----------------------------------------------------------------------------
(* The http response of a handler result: lines 131-139 for an Err, axum's  *)
(* Json for an Ok.                                                          *)

BAD_REQUEST == 400

HTTP_OK == 200

\* Error's Display text (the #[error] attributes, lines 105-116).
ErrorMessage(error) ==
    CASE error = "LockFailure" -> "Couldn't lock state: RwLock poisoned"
      [] error = "BadPoint" -> "Invalid point"
      [] error = "TooManyPoints" -> "Too many points for a single request"
      [] error = "BadEpoch" -> "Invalid epoch"
      [] error = "Base64" -> "Invalid base64 encoding"
      [] error = "Oprf" -> "PPOPRF error"

\* Mutant of IntoResponse: a poisoned lock is reported as a server error.
IntoResponse_LockIs500(result) ==
    IF result.status = "Ok"
    THEN [code |-> HTTP_OK, body |-> {"points", "epoch"},
          message |-> ""]
    ELSE [code |-> IF result.status = "LockFailure" THEN 500 ELSE BAD_REQUEST,
          body |-> {"message"},
          message |-> ErrorMessage(result.status)]

\* into_response: the status code, the fields of the JSON body, the message.
IntoResponse(result) ==
    IF result.status = "Ok"
    THEN [code |-> HTTP_OK, body |-> {"points", "epoch"},
          message |-> ""]
    ELSE [code |-> BAD_REQUEST,
          body |-> {"message"},
          message |-> ErrorMessage(result.status)]

----------------------------------------------------------------------------
(* randomness: lines 147-172, run under the read guard *)

\* Mutant of EvalPoint: the length check of lines 163-165 is missing.
EvalPoint_NoLengthCheck(server, epoch, base64_point) ==
    LET input == Base64Decode(base64_point) IN
    IF ~input.ok THEN [status |-> "Base64", out |-> NotBase64]
    ELSE LET evaluation == ServerEval(server, input.val, epoch) IN
         IF ~evaluation.ok THEN [status |-> "Oprf", out |-> NotBase64]
         ELSE [status |-> "Ok", out |-> Base64Encode(evaluation.output)]

\* One pass of the loop body (lines 160-168) on one request point.
EvalPoint(server, epoch, base64_point) ==
    LET input == Base64Decode(base64_point) IN
    IF ~input.ok THEN [status |-> "Base64", out |-> NotBase64]
    ELSE IF input.val.len # COMPRESSED_POINT_LEN
         THEN [status |-> "BadPoint", out |-> NotBase64]
    ELSE LET evaluation == ServerEval(server, input.val, epoch) IN
         IF ~evaluation.ok THEN [status |-> "Oprf", out |-> NotBase64]
         ELSE [status |-> "Ok", out |-> Base64Encode(evaluation.output)]

\* Indices of the request points whose loop pass returns an Err.
FailingPoints(server, epoch, points) ==
    {i \in 1..Len(points) : EvalPoint(server, epoch, points[i]).status # "Ok"}

Min(S) == CHOOSE i \in S : \A j \in S : i <= j

\* Mutant of EvalBatch: the Err of a failing point goes out with the outputs
\* pushed before it.
EvalBatch_Partial(server, epoch, points) ==
    LET failing == FailingPoints(server, epoch, points) IN
    IF failing = {}
    THEN Ok([i \in 1..Len(points) |-> EvalPoint(server, epoch, points[i]).out],
            epoch)
    ELSE [status |-> EvalPoint(server, epoch, points[Min(failing)]).status,
          points |-> [i \in 1..(Min(failing) - 1) |->
                         EvalPoint(server, epoch, points[i]).out],
          epoch |-> 0]

\* The for loop (lines 158-169): push the outputs in input order, return the
\* Err of the first point that fails and drop the outputs pushed so far.
EvalBatch(server, epoch, points) ==
    LET failing == FailingPoints(server, epoch, points) IN
    IF failing = {}
    THEN Ok([i \in 1..Len(points) |-> EvalPoint(server, epoch, points[i]).out],
            epoch)
    ELSE Err(EvalPoint(server, epoch, points[Min(failing)]).status, 0)

\* Mutant of EpochMismatch: only epochs before the current one are rejected.
EpochMismatch_PastOnly(epoch, current) == epoch < current

\* Mutant of EpochMismatch: only epochs after the current one are rejected.
EpochMismatch_FutureOnly(epoch, current) == epoch > current

\* The epoch check of lines 148-151.
EpochMismatch(epoch, current) == epoch # current

\* Mutant of TooManyPoints: off by one.
TooManyPoints_OffByOne(points) == Len(points) >= MAX_POINTS

\* The batch size check of lines 152-154.
TooManyPoints(points) == Len(points) > MAX_POINTS

\* Mutant of RandomnessResult: the batch size is checked before the epoch.
RandomnessResult_SizeFirst(st, request) ==
    LET epoch == unwrap_or(request.epoch, st.epoch) IN
    IF TooManyPoints(request.points) THEN Err("TooManyPoints", 0)
    ELSE IF EpochMismatch(epoch, st.epoch) THEN Err("BadEpoch", epoch)
    ELSE EvalBatch(st.server, epoch, request.points)

\* The handler's body once state.read() has succeeded.
RandomnessResult(st, request) ==
    LET epoch == unwrap_or(request.epoch, st.epoch) IN
    IF EpochMismatch(epoch, st.epoch) THEN Err("BadEpoch", epoch)
    ELSE IF TooManyPoints(request.points) THEN Err("TooManyPoints", 0)
    ELSE EvalBatch(st.server, epoch, request.points)

----------------------------------------------------------------------------
(* info: lines 180-190, run under the read guard *)

InfoResult(st) ==
    [status |-> "Ok",
     public_key |-> PublicKey(st.server),
     current_epoch |-> st.epoch,
     next_epoch_time |-> st.next_epoch_time,
     max_points |-> MAX_POINTS]

InfoErr(error) ==
    [status |-> error,
     public_key |-> NotBase64,
     current_epoch |-> 0,
     next_epoch_time |-> None,
     max_points |-> 0]

NoInfo == InfoErr("None")

----------------------------------------------------------------------------
(* The RwLock *)

\* state.read(): blocks while the write guard is held.
CanRead == ~writer

\* state.write(): blocks while any guard is held.
CanWrite == ~writer /\ readers = {}

\* Mutant of HoldRead: the read guard is a temporary, dropped at once.
HoldRead_Temporary(handler) == readers

\* `let state = state.read()?`: the guard lives until the handler returns.
HoldRead(handler) == readers \cup {handler}

----------------------------------------------------------------------------
(* Inputs *)

\* Configured ranges first_epoch <= last_epoch of u8 tags.
ConfigRanges ==
    {<<0, 255>>, <<0, 2>>, <<1, 3>>, <<2, 2>>, <<254, 255>>, <<255, 255>>}

Configs ==
    {[first_epoch |-> r[1], last_epoch |-> r[2],
      epoch_seconds |-> DEFAULT_EPOCH_SECONDS] : r \in ConfigRanges}

\* Two well-formed points, a point of the wrong length, a non-base64 string.
PointA == Base64Encode(Bytes(COMPRESSED_POINT_LEN, 1))

PointB == Base64Encode(Bytes(COMPRESSED_POINT_LEN, 2))

ShortPoint == Base64Encode(Bytes(COMPRESSED_POINT_LEN - 1, 3))

PointStrings == {PointA, ShortPoint, NotBase64}

SeqsUpTo(S, n) == UNION {[1..k -> S] : k \in 0..n}

ShortBatches == SeqsUpTo(PointStrings, MaxBatchLen)

\* A batch of n points: PointA everywhere but the last, which is `last`.
LongBatch(n, last) == [i \in 1..n |-> IF i = n THEN last ELSE PointA]

\* The largest batch accepted, and two batches one point over it.
FullBatch == LongBatch(MAX_POINTS, PointB)

OversizedBatch == LongBatch(MAX_POINTS + 1, PointB)

OversizedBadBatch == LongBatch(MAX_POINTS + 1, NotBase64)

\* Epoch selectors a request of the current state may carry: none or the
\* current epoch; or one that differs from it: the successor of the current
\* epoch as a u8, and the epoch the last rotation ended.
MatchingSelectors == {None, Some(state.epoch)}

SuccSelector == Some((state.epoch + 1) % U8_RANGE)

MismatchingSelectors ==
    {SuccSelector, Some(rotated.from)} \ {Some(state.epoch)}

\* Every short batch against the active epoch; a few batches against another
\* epoch; batches of MAX_POINTS and MAX_POINTS + 1 points.
Requests ==
    {[points |-> b, epoch |-> s] : b \in ShortBatches, s \in MatchingSelectors}
    \cup {[points |-> b, epoch |-> s] :
             b \in {<<>>, <<PointA>>}, s \in MismatchingSelectors}
    \cup {[points |-> FullBatch, epoch |-> None],
          [points |-> OversizedBatch, epoch |-> None],
          [points |-> OversizedBadBatch, epoch |-> None],
          [points |-> OversizedBadBatch, epoch |-> SuccSelector]}

NoRequest == [points |-> <<>>, epoch |-> None]

----------------------------------------------------------------------------
(* Initial state: main, lines 295-311 *)

Init ==
    /\ config \in Configs
    /\ overflow_checks = "undetermined"
    /\ state = OPRFServerNew(config, 1)
    /\ keys_made = 1
    /\ readers = {}
    /\ writer = FALSE
    /\ poisoned = FALSE
    /\ loop_pc = "announce"
    /\ old_epoch = 0
    /\ now = 0
    /\ rand_pc = "idle"
    /\ rand_req = NoRequest
    /\ rand_resp = NoResponse
    /\ info_pc = "idle"
    /\ info_resp = NoInfo
    /\ rotated = [done |-> FALSE, from |-> 0, regenerated |-> FALSE]
    /\ process = "running"

handler_vars == <<rand_pc, rand_req, rand_resp, info_pc, info_resp>>

loop_vars ==
    <<state, writer, poisoned, loop_pc, old_epoch, now, keys_made, rotated, process>>

----------------------------------------------------------------------------
(* Request handlers *)

\* randomness, lines 142-172: take the read guard, or fail on a poisoned
\* lock; validate and evaluate the request under the guard.
Randomness(request) ==
    /\ process = "running"
    /\ rand_pc = "idle"
    /\ CanRead
    /\ rand_req' = request
    /\ rand_pc' = "respond"
    /\ IF poisoned
       THEN /\ rand_resp' = Err("LockFailure", 0)
            /\ readers' = readers
       ELSE /\ rand_resp' = RandomnessResult(state, request)
            /\ readers' = HoldRead("randomness")
    /\ UNCHANGED <<config, overflow_checks, loop_vars, info_pc, info_resp>>

\* The handler returns: the read guard is dropped, the result goes out.
RandomnessReturn ==
    /\ process = "running"
    /\ rand_pc = "respond"
    /\ rand_pc' = "idle"
    /\ rand_req' = NoRequest
    /\ rand_resp' = NoResponse
    /\ readers' = readers \ {"randomness"}
    /\ UNCHANGED <<config, overflow_checks, loop_vars, info_pc, info_resp>>

\* Mutant of Info: the handler consumes the published timestamp.
Info_TakesTimestamp ==
    /\ process = "running"
    /\ info_pc = "idle"
    /\ CanRead
    /\ info_pc' = "respond"
    /\ IF poisoned
       THEN /\ info_resp' = InfoErr("LockFailure")
            /\ readers' = readers
            /\ state' = state
       ELSE /\ info_resp' = InfoResult(state)
            /\ readers' = HoldRead("info")
            /\ state' = [state EXCEPT !.next_epoch_time = None]
    /\ UNCHANGED <<config, overflow_checks, writer, poisoned, loop_pc, old_epoch,
                   now, keys_made, rotated, process, rand_pc, rand_req, rand_resp>>

\* info, lines 176-191
Info ==
    /\ process = "running"
    /\ info_pc = "idle"
    /\ CanRead
    /\ info_pc' = "respond"
    /\ IF poisoned
       THEN /\ info_resp' = InfoErr("LockFailure")
            /\ readers' = readers
       ELSE /\ info_resp' = InfoResult(state)
            /\ readers' = HoldRead("info")
    /\ UNCHANGED <<config, overflow_checks, loop_vars, rand_pc, rand_req, rand_resp>>

InfoReturn ==
    /\ process = "running"
    /\ info_pc = "respond"
    /\ info_pc' = "idle"
    /\ info_resp' = NoInfo
    /\ readers' = readers \ {"info"}
    /\ UNCHANGED <<config, overflow_checks, loop_vars, rand_pc, rand_req, rand_resp>>

----------------------------------------------------------------------------
(* epoch_update_loop, lines 195-252 *)

req_vars == <<config, overflow_checks, readers, handler_vars>>

\* What a panic does is set by the build's panic strategy: "unwind" (the
\* default) ends the panicking task only, tokio::spawn (line 309) catches
\* it and the server started at line 319 keeps serving; "abort" ends the
\* process.
PanicStrategies == {"unwind", "abort"}

\* Mutant of Panic: the unwinding leaves the lock unpoisoned.
Panic_NoPoison(holding_write) ==
    /\ loop_pc' = "panicked"
    /\ writer' = FALSE
    /\ poisoned' = poisoned
    /\ \E strategy \in PanicStrategies :
           process' = IF strategy = "abort" THEN "aborted" ELSE process

\* A panic of the rotation task: an `expect` that fails, or an arithmetic
\* overflow under overflow checks.  A write guard held at that moment is
\* dropped by the unwinding, which poisons the lock; the task ends.
Panic(holding_write) ==
    /\ loop_pc' = "panicked"
    /\ writer' = FALSE
    /\ poisoned' = (poisoned \/ holding_write)
    /\ \E strategy \in PanicStrategies :
           process' = IF strategy = "abort" THEN "aborted" ELSE process

\* Lines 203-219: compute the timestamp, take the write guard.
AnnounceLock ==
    /\ loop_pc = "announce"
    /\ CanWrite
    /\ IF poisoned
       THEN Panic(FALSE)
       ELSE /\ writer' = TRUE
            /\ loop_pc' = "publish"
            /\ UNCHANGED <<poisoned, process>>
    /\ UNCHANGED <<state, old_epoch, now, keys_made, rotated, req_vars>>

\* Mutant of AnnouncePublish: the write guard is kept over the sleep.
AnnouncePublish_KeepsGuard ==
    /\ loop_pc = "publish"
    /\ state' = [state EXCEPT !.next_epoch_time = Some(now + config.epoch_seconds)]
    /\ writer' = writer
    /\ loop_pc' = "sleep"
    /\ UNCHANGED <<poisoned, old_epoch, now, keys_made, rotated, process, req_vars>>

\* Lines 220-221: publish next_epoch_time, drop the guard before sleeping.
AnnouncePublish ==
    /\ loop_pc = "publish"
    /\ state' = [state EXCEPT !.next_epoch_time = Some(now + config.epoch_seconds)]
    /\ writer' = FALSE
    /\ loop_pc' = "sleep"
    /\ UNCHANGED <<poisoned, old_epoch, now, keys_made, rotated, process, req_vars>>

\* Line 224: sleep for the interval, holding no guard.
Wait ==
    /\ loop_pc = "sleep"
    /\ now' = now + config.epoch_seconds
    /\ loop_pc' = "rotate"
    /\ UNCHANGED <<state, writer, poisoned, old_epoch, keys_made, rotated, process,
                   req_vars>>

\* Line 229: take the write guard for the rotation.
RotateLock ==
    /\ loop_pc = "rotate"
    /\ CanWrite
    /\ IF poisoned
       THEN Panic(FALSE)
       ELSE /\ writer' = TRUE
            /\ loop_pc' = "puncture"
            /\ UNCHANGED <<poisoned, process>>
    /\ UNCHANGED <<state, old_epoch, now, keys_made, rotated, req_vars>>

\* Lines 232-235: puncture the current epoch, panic if that fails.
RotatePuncture ==
    /\ loop_pc = "puncture"
    /\ old_epoch' = state.epoch
    /\ IF ServerPunctureOk(state.server, state.epoch)
       THEN /\ state' = [state EXCEPT !.server = ServerPuncture(@, state.epoch)]
            /\ loop_pc' = "advance"
            /\ UNCHANGED <<writer, poisoned, process>>
       ELSE /\ Panic(TRUE)
            /\ state' = state
    /\ UNCHANGED <<now, keys_made, rotated, req_vars>>

\* `old_epoch + 1` on u8 (line 238): wraps without overflow checks.
WrappingSucc(e) == (e + 1) % U8_RANGE

\* Does `old_epoch + 1` exceed u8::MAX?
SuccOverflows(e) == e + 1 >= U8_RANGE

\* The build profile decides what an overflowing `+` does: panic (overflow
\* checks enabled, the dev profile) or wrap (disabled, the release profile).
\* One run has one profile; the model fixes it when the first overflow
\* happens, since nothing reads it before.
Profiles(overflows) ==
    IF overflows /\ overflow_checks = "undetermined"
    THEN {"enabled", "disabled"}
    ELSE {overflow_checks}

\* Mutant of EpochsContain: the range check is missing.
EpochsContain_Always(cfg, new_epoch) == TRUE

\* Line 239: epochs.contains(&new_epoch)
EpochsContain(cfg, new_epoch) == new_epoch \in EpochRange(cfg)

\* The state after lines 239-249, given new_epoch and the next fresh key.
AdvancedState(st, cfg, new_epoch, key) ==
    IF EpochsContain(cfg, new_epoch)
    THEN [st EXCEPT !.epoch = new_epoch]
    ELSE OPRFServerNew(cfg, key)

\* Lines 238-251: advance the epoch or replace the whole OPRFServer, then
\* drop the write guard at the end of the loop body.
RotateAdvance ==
    /\ loop_pc = "advance"
    /\ \E profile \in Profiles(SuccOverflows(old_epoch)) :
        /\ overflow_checks' = profile
        /\ IF SuccOverflows(old_epoch) /\ profile = "enabled"
           THEN /\ Panic(TRUE)
                /\ UNCHANGED <<state, keys_made, rotated>>
           ELSE LET new_epoch == WrappingSucc(old_epoch)
                    regenerate == ~EpochsContain(config, new_epoch)
                IN  /\ regenerate => keys_made < MaxGenerations
                    /\ state' = AdvancedState(state, config, new_epoch, keys_made + 1)
                    /\ keys_made' = IF regenerate THEN keys_made + 1 ELSE keys_made
                    /\ rotated' = [done |-> TRUE, from |-> old_epoch,
                                   regenerated |-> regenerate]
                    /\ writer' = FALSE
                    /\ loop_pc' = "announce"
                    /\ UNCHANGED <<poisoned, process>>
    /\ UNCHANGED <<old_epoch, now, config, readers, handler_vars>>

----------------------------------------------------------------------------

Next ==
    \/ \E request \in Requests : Randomness(request)
    \/ RandomnessReturn
    \/ Info
    \/ InfoReturn
    \/ AnnounceLock
    \/ AnnouncePublish
    \/ Wait
    \/ RotateLock
    \/ RotatePuncture
    \/ RotateAdvance

Spec == Init /\ [][Next]_vars

\* The scheduling of the tasks.  The rotation task and a handler that has
\* been called keep running (tokio polls every ready task), so each of their
\* steps that stays possible is taken.  state.write() (lines 217, 229) is
\* possible only while no guard is held, and std's RwLock promises no
\* priority policy: the most a waiting writer can rely on is to get the lock
\* if it is free again and again.
Fairness ==
    /\ WF_vars(RandomnessReturn)
    /\ WF_vars(InfoReturn)
    /\ SF_vars(AnnounceLock)
    /\ WF_vars(AnnouncePublish)
    /\ WF_vars(Wait)
    /\ SF_vars(RotateLock)
    /\ WF_vars(RotatePuncture)
    /\ WF_vars(RotateAdvance)

LiveSpec == Init /\ [][Next]_vars /\ Fairness

----------------------------------------------------------------------------
(* Notions shared by the properties *)

\* The randomness handler has taken the read guard and computed its result.
Served == rand_pc = "respond" /\ "randomness" \in readers

\* The request names no epoch, or names the current one.
SelectorMatches ==
    ~rand_req.epoch.some \/ rand_req.epoch.val = state.epoch

\* A well-formed point: base64 of a byte string of the compressed length.
WellFormed(str) == str.valid /\ str.bytes.len = COMPRESSED_POINT_LEN

\* What the primitive returns for a point at the current key and epoch.
Evaluation(str) ==
    Base64Encode(Bytes(COMPRESSED_POINT_LEN,
                       <<state.server.key, state.epoch, str.bytes.tag>>))

----------------------------------------------------------------------------
(* C1: no successful evaluation under a punctured epoch.  Whenever the      *)
(* randomness handler holds a successful response with at least one output, *)
(* every output was computed by the primitive instance now in the shared    *)
(* state, at the response's epoch, and that instance has not punctured that *)
(* epoch: a puncture never overtakes an evaluation that is still being      *)
(* served, so no response carries an evaluation of a punctured epoch.       *)
NoEvalUnderPuncturedEpoch ==
    (rand_pc = "respond" /\ rand_resp.status = "Ok") =>
        \A i \in 1..Len(rand_resp.points) :
            LET out == rand_resp.points[i].bytes.tag IN
            /\ out[1] = state.server.key
            /\ out[2] = rand_resp.epoch
            /\ out[2] \notin state.server.punctured

\* An evaluation succeeds on a primitive that has punctured earlier epochs.
EvalAfterPunctureWitness ==
    /\ Served
    /\ rand_resp.status = "Ok"
    /\ Len(rand_resp.points) > 0
    /\ state.server.punctured # {}

(* C2: whenever a handler holds shared access, the primitive in the shared  *)
(* state has not punctured the current epoch of the shared state, for every *)
(* configured range of u8 tags and after any number of rotations.           *)
ReadersSeeUnpuncturedEpoch ==
    readers # {} => state.epoch \notin state.server.punctured

(* C3: the current epoch always lies in the configured closed range.        *)
EpochInRange ==
    config.first_epoch <= state.epoch /\ state.epoch <= config.last_epoch

\* A second generation has been started and its epoch advanced.
EpochInRangeWitness ==
    /\ keys_made > 1
    /\ rotated.done
    /\ ~rotated.regenerated
    /\ state.epoch > config.first_epoch

PriorEpochRejectedAnyRange ==
    (Served /\ rotated.done /\ rand_req.epoch = Some(rotated.from))
        => rand_resp.status = "BadEpoch"

(* C5 amended: the same, for every configured range of at least two epochs  *)
(* (first_epoch < last_epoch).  With a single-epoch range every Rotate      *)
(* starts a new generation at the same epoch tag, which is served again.    *)
PriorEpochRejected ==
    (/\ Served
     /\ rotated.done
     /\ rand_req.epoch = Some(rotated.from)
     /\ config.first_epoch < config.last_epoch)
        => rand_resp.status = "BadEpoch"

\* The prior epoch is refused after a Rotate that started a new generation.
PriorEpochRejectedWitness ==
    /\ Served
    /\ rotated.done
    /\ rotated.regenerated
    /\ rand_req.epoch = Some(rotated.from)
    /\ config.first_epoch < config.last_epoch
    /\ rand_req.points = <<PointA>>
    /\ rand_resp.status = "BadEpoch"

(* C6: every Rotate that runs with current_epoch = last_epoch leaves a      *)
(* newly constructed primitive over the whole range, nothing punctured,     *)
(* under a different key, and current_epoch = first_epoch; for every        *)
(* configured range, last_epoch = 255 included.                             *)
ExhaustedRangeRegenerates ==
    [][(loop_pc = "advance" /\ old_epoch = config.last_epoch
            /\ loop_pc' # "advance")
        => /\ state'.server.key # state.server.key
           /\ state'.server.epochs = EpochRange(config)
           /\ state'.server.punctured = {}
           /\ state'.epoch = config.first_epoch]_vars

(* C7 as stated: a served request of MAX_POINTS + 1 points is answered      *)
(* TooManyPoints whatever its points are, and one of exactly MAX_POINTS     *)
(* points is never answered TooManyPoints.                                  *)
OversizedBatchRejectedAnySelector ==
    Served =>
        /\ Len(rand_req.points) = MAX_POINTS + 1
               => rand_resp.status = "TooManyPoints"
        /\ Len(rand_req.points) = MAX_POINTS
               => rand_resp.status # "TooManyPoints"

(* C7 amended: the same for a request whose selector is absent or equal to  *)
(* the current epoch; a selector that differs is answered BadEpoch first.   *)
OversizedBatchRejected ==
    Served =>
        /\ (Len(rand_req.points) = MAX_POINTS + 1 /\ SelectorMatches)
               => rand_resp.status = "TooManyPoints"
        /\ Len(rand_req.points) = MAX_POINTS
               => rand_resp.status # "TooManyPoints"

\* An oversized batch that ends in a non-base64 string is refused by size.
OversizedBatchWitness ==
    /\ Served
    /\ Len(rand_req.points) = MAX_POINTS + 1
    /\ ~rand_req.points[MAX_POINTS + 1].valid
    /\ rand_resp.status = "TooManyPoints"

\* Point i of the request decodes to a byte string of the wrong length.
MisSized(i) ==
    rand_req.points[i].valid
        /\ rand_req.points[i].bytes.len # COMPRESSED_POINT_LEN

(* C8 as stated: a served request holding any point whose decoded length    *)
(* differs from COMPRESSED_POINT_LEN is answered BadPoint.                  *)
MisSizedPointRejectedAlways ==
    (Served /\ \E i \in 1..Len(rand_req.points) : MisSized(i))
        => rand_resp.status = "BadPoint"

(* C8 amended: a served request that passes the epoch and batch size checks *)
(* is answered BadPoint when it holds a mis-sized point and every point     *)
(* before it is well formed and evaluates.                                  *)
MisSizedPointRejected ==
    (/\ Served
     /\ SelectorMatches
     /\ Len(rand_req.points) <= MAX_POINTS
     /\ \E i \in 1..Len(rand_req.points) :
            /\ MisSized(i)
            /\ \A j \in 1..(i - 1) :
                   /\ WellFormed(rand_req.points[j])
                   /\ ServerCanEval(state.server, state.epoch))
        => rand_resp.status = "BadPoint"

\* A mis-sized point after a well-formed one is answered BadPoint.
MisSizedPointWitness ==
    /\ Served
    /\ rand_req.points = <<PointA, ShortPoint>>
    /\ rand_req.epoch = Some(state.epoch)
    /\ rand_resp.status = "BadPoint"

(* C9: a served request of 0 to MAX_POINTS well-formed points, with no      *)
(* selector or the current epoch as selector, succeeds; its outputs are as  *)
(* many as its points, output i is the evaluation of point i at the current *)
(* key and epoch, and the response names the current epoch.                 *)
WellFormedBatchEvaluated ==
    (/\ Served
     /\ SelectorMatches
     /\ Len(rand_req.points) <= MAX_POINTS
     /\ \A i \in 1..Len(rand_req.points) : WellFormed(rand_req.points[i]))
        => /\ rand_resp.status = "Ok"
           /\ rand_resp.epoch = state.epoch
           /\ Len(rand_resp.points) = Len(rand_req.points)
           /\ \A i \in 1..Len(rand_req.points) :
                  rand_resp.points[i] = Evaluation(rand_req.points[i])

\* Point i of the request fails: base64, length or evaluation.
PointFails(i) ==
    \/ ~WellFormed(rand_req.points[i])
    \/ ~ServerCanEval(state.server, state.epoch)

(* C10: a randomness response that is an error carries no outputs, and a    *)
(* served request with any failing point is answered with an error.         *)
NoPartialResults ==
    /\ (rand_pc = "respond" /\ rand_resp.status # "Ok")
           => rand_resp.points = <<>>
    /\ (Served /\ \E i \in 1..Len(rand_req.points) : PointFails(i))
           => rand_resp.status # "Ok"

\* A point fails after an earlier point of the batch was evaluated.
NoPartialResultsWitness ==
    /\ Served
    /\ SelectorMatches
    /\ Len(rand_req.points) = 2
    /\ rand_req.points[1] = PointA
    /\ ~rand_req.points[2].valid
    /\ rand_resp.status = "Base64"
    /\ rand_resp.points = <<>>

(* C11: no torn read between the two handlers.  Whenever an info call and   *)
(* a successful randomness call are being served at the same moment, the    *)
(* currentEpoch info reports is the epoch the randomness call reports, and  *)
(* the epoch its outputs were evaluated at.                                 *)
NoTornRead ==
    (/\ info_pc = "respond" /\ info_resp.status = "Ok"
     /\ rand_pc = "respond" /\ rand_resp.status = "Ok")
        => /\ info_resp.current_epoch = rand_resp.epoch
           /\ \A i \in 1..Len(rand_resp.points) :
                  rand_resp.points[i].bytes.tag[2] = info_resp.current_epoch

\* Both handlers hold shared access after a rotation, with outputs in hand.
NoTornReadWitness ==
    /\ readers = {"info", "randomness"}
    /\ info_resp.status = "Ok"
    /\ rand_resp.status = "Ok"
    /\ Len(rand_resp.points) > 0
    /\ rotated.done
    /\ info_resp.current_epoch > config.first_epoch

(* C12: a failure inside the rotation scheduler terminates the process:    *)
(* once the rotation task has failed, the process is gone and no handler    *)
(* is answering an info or randomness request.                              *)
SchedulerFailureStopsService ==
    loop_pc = "panicked" =>
        /\ process = "aborted"
        /\ rand_pc = "idle"
        /\ info_pc = "idle"

\* The errors a request handler can return.
HandlerErrors ==
    {"LockFailure", "BadPoint", "TooManyPoints", "BadEpoch", "Base64", "Oprf"}

(* C13: every error of a request handler becomes a response of status 400   *)
(* whose body is the one field `message`; the process is still running when *)
(* the handler holds the error, and the handler can return and serve again. *)
HandlerErrorsRecovered ==
    /\ (rand_pc = "respond" /\ rand_resp.status # "Ok")
           => /\ rand_resp.status \in HandlerErrors
              /\ IntoResponse(rand_resp).code = BAD_REQUEST
              /\ IntoResponse(rand_resp).body = {"message"}
              /\ process = "running"
              /\ ENABLED RandomnessReturn
    /\ (info_pc = "respond" /\ info_resp.status # "Ok")
           => /\ info_resp.status \in HandlerErrors
              /\ IntoResponse(info_resp).code = BAD_REQUEST
              /\ IntoResponse(info_resp).body = {"message"}
              /\ process = "running"
              /\ ENABLED InfoReturn

\* A request is refused on a poisoned lock.
HandlerErrorsWitness ==
    /\ rand_pc = "respond"
    /\ rand_resp.status = "LockFailure"
    /\ info_pc = "respond"
    /\ info_resp.status = "LockFailure"

\* A step of a request handler: a call or its return.
HandlerStep == rand_pc' # rand_pc \/ info_pc' # info_pc

\* The scheduler positions at which it holds the write guard.
WriteSections == {"publish", "puncture", "advance"}

(* C14: the scheduler is the only writer: a step of randomness or info      *)
(* leaves the primitive, the current epoch and the timestamp as they were   *)
(* and is taken without the write guard; the shared state changes only in   *)
(* a scheduler step that holds the write guard.                             *)
SchedulerIsSoleWriter ==
    [][/\ HandlerStep => (state' = state /\ ~writer /\ ~writer')
       /\ state' # state => (loop_pc \in WriteSections /\ writer /\ ~HandlerStep)]_vars

\* Both handlers have read the state of a rotated server after an Announce.
SoleWriterWitness ==
    /\ rand_pc = "respond" /\ rand_resp.status = "Ok"
    /\ info_pc = "respond" /\ info_resp.status = "Ok"
    /\ rotated.done
    /\ state.next_epoch_time.some
    /\ loop_pc = "rotate"

(* C15: the scheduler holds no guard while it waits: the write guard is     *)
(* held only between a lock and the end of its Announce or Rotate, so at    *)
(* any point of the wait a handler can take the read guard.                 *)
NoGuardWhileWaiting ==
    /\ writer <=> loop_pc \in WriteSections
    /\ loop_pc \in {"sleep", "rotate"} =>
           /\ CanRead
           /\ (process = "running" /\ info_pc = "idle") => ENABLED Info
           /\ (process = "running" /\ rand_pc = "idle") =>
                  ENABLED Randomness(NoRequest)

\* Both handlers hold the read guard during a wait that follows a rotation.
NoGuardWhileWaitingWitness ==
    /\ loop_pc = "sleep"
    /\ readers = {"info", "randomness"}
    /\ rotated.done

(* C16: within one generation the epoch strictly increases: a Rotate that   *)
(* keeps the primitive (the key is unchanged) sets the current epoch to the  *)
(* previous one plus one, for every configured range.                       *)
EpochStrictlyIncreases ==
    [][(/\ loop_pc = "advance"
        /\ loop_pc' = "announce"
        /\ state'.server.key = state.server.key)
           => state'.epoch = state.epoch + 1]_vars

\* The status the checks of randomness give when taken in the order guard,
\* epoch, batch size, then the points in request order (base64, length,
\* evaluation).
StatusInOrder ==
    IF poisoned THEN "LockFailure"
    ELSE IF ~SelectorMatches THEN "BadEpoch"
    ELSE IF Len(rand_req.points) > MAX_POINTS THEN "TooManyPoints"
    ELSE IF \E i \in 1..Len(rand_req.points) : PointFails(i)
         THEN LET first == Min({i \in 1..Len(rand_req.points) : PointFails(i)})
                  point == rand_req.points[first]
              IN  IF ~point.valid THEN "Base64"
                  ELSE IF point.bytes.len # COMPRESSED_POINT_LEN THEN "BadPoint"
                  ELSE "Oprf"
    ELSE "Ok"

(* C18: when several checks of a randomness request would fail, the answer  *)
(* is the error of the first check in the order guard access, epoch, batch  *)
(* size, then the points in request order, each by base64, length and       *)
(* evaluation.                                                              *)
ErrorsInCheckOrder ==
    rand_pc = "respond" => rand_resp.status = StatusInOrder

\* A mis-sized point followed by one that is not base64 is answered BadPoint.
ErrorsInCheckOrderWitness ==
    /\ rand_pc = "respond"
    /\ rand_req.points = <<ShortPoint, NotBase64>>
    /\ rand_resp.status = "BadPoint"
    /\ rotated.done

\* The first Announce has completed.
Announced == now > 0 \/ loop_pc = "sleep"

(* C19: once the first Announce has completed, every successful info        *)
(* response reports a present timestamp, also after a Rotate that starts a  *)
(* new generation.                                                          *)
TimestampPresentAfterAnnounce ==
    (info_pc = "respond" /\ info_resp.status = "Ok" /\ Announced)
        => info_resp.next_epoch_time.some

(* C20: a scheduler failure inside Rotate, under the write guard, leaves    *)
(* the lock poisoned: from then on every randomness and info request is     *)
(* answered with the guard-access error and no evaluation succeeds.         *)
FailedRotationPoisons ==
    loop_pc = "panicked" =>
        /\ poisoned
        /\ rand_pc = "respond" =>
               (rand_resp.status = "LockFailure" /\ rand_resp.points = <<>>)
        /\ info_pc = "respond" => info_resp.status = "LockFailure"

\* After a failed rotation a well-formed request and an info request are
\* both refused.
FailedRotationWitness ==
    /\ loop_pc = "panicked"
    /\ rand_pc = "respond"
    /\ rand_req.points = <<PointA>>
    /\ rand_resp.status = "LockFailure"
    /\ info_pc = "respond"
    /\ info_resp.status = "LockFailure"
    /\ process = "running"

(* C17: the scheduler cycles forever: with handlers that release the read   *)
(* guard after finitely many steps and fair scheduling, Rotate keeps being  *)
(* executed, so an epoch that is current and evaluable is eventually        *)
(* punctured.                                                               *)
CurrentEpochEventuallyPunctured ==
    ServerCanEval(state.server, state.epoch)
        ~> ~ServerCanEval(state.server, state.epoch)

====
